---- MODULE Spec2Model ----
(***************************************************************************)
(* DetectGPT perturbation / scoring / discrepancy pipeline of the          *)
(* notebooks under src/unnamed (part_000 is the current version, part_001  *)
(* and Notebooks/old/detectgpt_paul.ipynb are earlier variants).           *)
(*                                                                         *)
(* A text is the sequence of its whitespace-delimited words (text.split()  *)
(* and " ".join(words) move between the two forms).  A word is a record    *)
(* [t |-> "w", v |-> k]; the placeholder "<extra_id_i>" is the record      *)
(* [t |-> "x", v |-> i].  Log-probabilities are exact rationals extended   *)
(* with the IEEE values -inf, +inf and NaN.                                *)
(***************************************************************************)
EXTENDS Integers, Sequences, FiniteSets, TLC

VARIABLES
    \* batch_mask_text
    texts,            \* the argument texts: a list of word sequences
    mask_ratio,       \* the argument mask_ratio, a fraction [num, den]
    max_words,        \* the argument max_words
    masked_texts,     \* the list being built
    sampled_indices,  \* mask_indices of each iteration done (descending)
    sampler_calls,    \* every request made to np.random.choice: [a, size]
    mask_pc,          \* "run", "returned" or "raised"
    mask_error,       \* the exception that left the call, "" when none
    \* batch_average_log_prob
    score_texts,      \* the argument texts, each as its list of token ids
    batch_size,       \* the argument batch_size
    input_ids,        \* tensors of the sub-batch scored last
    attention_mask,
    loss_per_token,
    all_log_probs,    \* the list being built
    score_pc,         \* "run", "returned" or "raised"
    \* compute_detectgpt_discrepancy
    log_probs_per_text_base,         \* argument: one value per text
    log_probs_per_text_transformed,  \* argument: one list of values per text
    normalization,                   \* argument
    discrepancy_scores,              \* the list returned
    disc_pc,                         \* "ready" or "returned"
    \* batch_extract_fills, for one element of its argument
    raw_text,         \* the decoded output of the infill model
    extracted_fills,  \* the fills found in it
    extract_pc,       \* "ready" or "returned"
    \* batch_apply_extracted_fills, for one pair of its arguments
    masked_text,      \* the masked text of the pair
    fills,            \* the fill set of the pair
    perturbed_text,   \* the element of the result
    apply_pc,         \* "ready" or "returned"
    \* batch_replace_masks
    infill_texts,     \* the argument texts: masked texts
    infill_batch_size,\* the argument batch_size
    stop_ids,         \* stop_id of every chunk generated so far
    all_outputs,      \* the list being built
    infill_pc,        \* "run", "returned" or "raised"
    \* optimized_processing, t5_perturbation and the cell that calls them
    original_texts,      \* the texts of the run, truncated to max_length
    n_perturbations,     \* argument
    op_batch_size,       \* argument batch_size
    perturbation_idx,    \* loop variable
    all_masked_texts,    \* locals of t5_perturbation
    all_raw_fills,
    all_extracted_fills,
    all_perturbed_texts, \* its result, kept by optimized_processing
    events,              \* the calls made so far, in order
    op_pc,               \* position in optimized_processing / the cell
    \* the global generator behind np.random.choice
    rng_mode,            \* "seeded", or "free" when its state is not known
    rng_seed,            \* the seed of a seeded generator
    rng_state,           \* the state of a seeded generator
    \* two runs of the cell on the same data
    run,                 \* the number of the current run
    first_run,           \* the results of the first run, <<>> before its end
    \* repeated calls of the aggregator on one record
    derived              \* per normalization flag, the scores of the latest
                         \* earlier call with the flag

mask_vars == <<texts, mask_ratio, max_words, masked_texts, sampled_indices,
               sampler_calls, mask_pc, mask_error>>

score_vars == <<score_texts, batch_size, input_ids, attention_mask,
                loss_per_token, all_log_probs, score_pc>>

disc_vars == <<log_probs_per_text_base, log_probs_per_text_transformed,
               normalization, discrepancy_scores, disc_pc>>

extract_vars == <<raw_text, extracted_fills, extract_pc>>

apply_vars == <<masked_text, fills, perturbed_text, apply_pc>>

infill_vars == <<infill_texts, infill_batch_size, stop_ids, all_outputs, infill_pc>>

op_vars == <<original_texts, n_perturbations, op_batch_size, perturbation_idx,
             all_masked_texts, all_raw_fills, all_extracted_fills,
             all_perturbed_texts, events, op_pc>>

rng_vars == <<rng_mode, rng_seed, rng_state>>

run_vars == <<run, first_run, derived>>

vars == <<mask_vars, score_vars, disc_vars, extract_vars, apply_vars, infill_vars,
          op_vars, rng_vars, run_vars>>

\* what the actions of one component leave alone
mask_frame ==
    <<score_vars, disc_vars, extract_vars, apply_vars, infill_vars, op_vars, run_vars>>

score_frame ==
    <<mask_vars, disc_vars, extract_vars, apply_vars, infill_vars, op_vars, rng_vars, run_vars>>

disc_frame ==
    <<mask_vars, score_vars, extract_vars, apply_vars, infill_vars, op_vars, rng_vars, run_vars>>

extract_frame ==
    <<mask_vars, score_vars, disc_vars, apply_vars, infill_vars, op_vars, rng_vars, run_vars>>

apply_frame ==
    <<mask_vars, score_vars, disc_vars, extract_vars, infill_vars, op_vars, rng_vars, run_vars>>

infill_frame ==
    <<mask_vars, score_vars, disc_vars, extract_vars, apply_vars, op_vars, rng_vars, run_vars>>

-----------------------------------------------------------------------------
(* Bounds of the model *)

MaxTexts == 2         \* texts in one batch
MaxTextLen == 5       \* words in one text
RatioDen == 4         \* mask ratios are k / RatioDen, k in 1..RatioDen
MaxScoreTexts == 3    \* texts given to one call of the scorer
MaxTokens == 2        \* tokens in one text given to the scorer
MaxSamples == 1       \* texts in one record given to the aggregator
MaxPerturbations == 3 \* perturbed log-probabilities per text
MaxRawLen == 5        \* lexemes in one decoded output of the infill model
MaxMaskedLen == 3     \* words and placeholders in one masked text to fill
MaxFills == 2         \* fills in one fill set
MaxInfillTexts == 2   \* masked texts given to one call of the infill requester
MaxInfillLen == 2     \* words and placeholders in one such masked text
MaxPipeTexts == 2     \* texts in one run of optimized_processing
MaxRounds == 2        \* perturbation rounds in one run
RngModulus == 4       \* states of the seeded generator

-----------------------------------------------------------------------------
(* Words, placeholders, small helpers *)

Word(k) == [t |-> "w", v |-> k]

\* f"<extra_id_{i}>"
ExtraId(i) == [t |-> "x", v |-> i]

IsExtraId(tok) == tok.t = "x"

\* text.split() of a text of n distinct plain words
PlainText(n) == [k \in 1..n |-> Word(k)]

\* words[:max_words] if len(words) > max_words else words
Truncate(words, mw) == IF Len(words) > mw THEN SubSeq(words, 1, mw) ELSE words

\* the fraction num / den
Ratio(num, den) == [num |-> num, den |-> den]

\* int(len(words) * mask_ratio)
NumMasksCeil(words, r) == (Len(words) * r.num + r.den - 1) \div r.den

NumMasks(words, r) == (Len(words) * r.num) \div r.den

\* a pop that removes nothing
PopNothing(words, p) == words

\* words.pop(idx + 1) for the 0-based index idx + 1 = position p + 1
Pop(words, p) == SubSeq(words, 1, p - 1) \o SubSeq(words, p + 1, Len(words))

Max(S) == CHOOSE x \in S : \A y \in S : y <= x

MinOf(S) == CHOOSE x \in S : \A y \in S : x <= y

\* np.sort(...) : the chosen indices in ascending order
RECURSIVE SortAsc(_)
SortAsc(S) == IF S = {} THEN <<>> ELSE <<MinOf(S)>> \o SortAsc(S \ {MinOf(S)})

\* np.sort(...)[::-1] : the chosen indices in descending order
RECURSIVE SortDesc(_)
SortDesc(S) == IF S = {} THEN <<>> ELSE <<Max(S)>> \o SortDesc(S \ {Max(S)})

\* a masking that numbers the placeholders from the smallest chosen index
RECURSIVE ApplyMaskNumberedAscending(_, _, _)
ApplyMaskNumberedAscending(words, mask_indices, i) ==
    IF i > Len(mask_indices) THEN words
    ELSE LET idx == mask_indices[i]
             w1 == [words EXCEPT ![idx + 1] = ExtraId(Len(mask_indices) - i)]
             w2 == IF idx + 1 < Len(w1) THEN Pop(w1, idx + 2) ELSE w1
         IN ApplyMaskNumberedAscending(w2, mask_indices, i + 1)

\* for i, idx in enumerate(mask_indices): words[idx] = <extra_id_i>;
\*     if idx+1 < len(words): words.pop(idx+1)
\* (idx is 0-based, i is the 1-based position in mask_indices)
RECURSIVE ApplyMask(_, _, _)
ApplyMask(words, mask_indices, i) ==
    IF i > Len(mask_indices) THEN words
    ELSE LET idx == mask_indices[i]
             w1 == [words EXCEPT ![idx + 1] = ExtraId(i - 1)]
             w2 == IF idx + 1 < Len(w1) THEN Pop(w1, idx + 2) ELSE w1
         IN ApplyMask(w2, mask_indices, i + 1)

\* np.random.choice(a, size, replace=False) raises ValueError when a <= 0
\* or size > a; otherwise it returns size distinct values of range(a)
SamplerFeasible(a, size) == a > 0 /\ size <= a

\* a sampler that draws from range(a + 1), the last word index included
SamplerOutcomesWithLast(a, size) == {S \in SUBSET (0..a) : Cardinality(S) = size}

SamplerOutcomes(a, size) == {S \in SUBSET (0..(a - 1)) : Cardinality(S) = size}

\* A seeded generator: its draws are a function of its state, and every
\* draw moves the state on.  The generator of the model has RngModulus
\* states; a draw picks the elements one by one out of those left.
NthElement(S, n) == CHOOSE e \in S : Cardinality({x \in S : x < e}) = n

RECURSIVE SeededChoice(_, _, _)
SeededChoice(avail, size, x) ==
    IF size = 0 THEN {}
    ELSE LET e == NthElement(avail, x % Cardinality(avail))
         IN {e} \cup SeededChoice(avail \ {e}, size - 1, x \div Cardinality(avail) + 1)

\* a seeding that leaves the generator in the state it is in
ReseedKeepsState(state, seed) == state

\* np.random.seed(seed): the state becomes the one the seed stands for
Reseed(state, seed) == seed

Advance(x) == (x + 1) % RngModulus

\* the generator when nothing is known about its state
RngFree ==
    /\ rng_mode = "free"
    /\ rng_seed = 0
    /\ rng_state = 0

\* the generator at the start of a run that seeds it
RngSeeded ==
    /\ rng_mode = "seeded"
    /\ rng_seed \in 0..(RngModulus - 1)
    /\ rng_state = Reseed(0, rng_seed)

-----------------------------------------------------------------------------
(* batch_mask_text: one action per iteration of "for text in texts" *)

MaskInit ==
    /\ \E n \in 1..MaxTexts :
         texts \in [1..n -> {PlainText(l) : l \in 0..MaxTextLen}]
    /\ mask_ratio \in {Ratio(k, RatioDen) : k \in 1..RatioDen}
    /\ max_words \in (MaxTextLen - 1)..MaxTextLen
    /\ masked_texts = <<>>
    /\ sampled_indices = <<>>
    /\ sampler_calls = <<>>
    /\ mask_pc = "run"
    /\ mask_error = ""

\* the masker when a specification does not exercise it
MaskIdle ==
    /\ texts = <<>>
    /\ mask_ratio = Ratio(1, 1)
    /\ max_words = 0
    /\ masked_texts = <<>>
    /\ sampled_indices = <<>>
    /\ sampler_calls = <<>>
    /\ mask_pc = "idle"
    /\ mask_error = ""

\* an iteration whose text gets no mask: the words are joined unchanged
MaskNone ==
    /\ mask_pc = "run"
    /\ Len(masked_texts) < Len(texts)
    /\ LET words == Truncate(texts[Len(masked_texts) + 1], max_words)
       IN /\ ~(NumMasks(words, mask_ratio) > 0)
          /\ masked_texts' = Append(masked_texts, words)
    /\ sampled_indices' = Append(sampled_indices, <<>>)
    /\ UNCHANGED <<texts, mask_ratio, max_words, sampler_calls, mask_pc, mask_error>>
    /\ UNCHANGED rng_vars
    /\ UNCHANGED mask_frame

\* an iteration that samples num_masks indices and masks them
MaskSample ==
    /\ mask_pc = "run"
    /\ Len(masked_texts) < Len(texts)
    /\ LET words == Truncate(texts[Len(masked_texts) + 1], max_words)
           num_masks == NumMasks(words, mask_ratio)
       IN /\ num_masks > 0
          /\ SamplerFeasible(Len(words) - 1, num_masks)
          /\ sampler_calls' = Append(sampler_calls,
                                     [a |-> Len(words) - 1, size |-> num_masks])
          /\ \E S \in SamplerOutcomes(Len(words) - 1, num_masks) :
               /\ rng_mode = "seeded"
                  => S = SeededChoice(0..(Len(words) - 2), num_masks, rng_state)
               /\ sampled_indices' = Append(sampled_indices, SortDesc(S))
               /\ masked_texts' = Append(masked_texts,
                                         ApplyMask(words, SortDesc(S), 1))
    /\ rng_state' = IF rng_mode = "seeded" THEN Advance(rng_state) ELSE rng_state
    /\ UNCHANGED <<texts, mask_ratio, max_words, mask_pc, mask_error, rng_mode,
                   rng_seed>>
    /\ UNCHANGED mask_frame

\* an iteration whose request the sampler rejects: the ValueError leaves
\* batch_mask_text, nothing is returned
MaskRaise ==
    /\ mask_pc = "run"
    /\ Len(masked_texts) < Len(texts)
    /\ LET words == Truncate(texts[Len(masked_texts) + 1], max_words)
           num_masks == NumMasks(words, mask_ratio)
       IN /\ num_masks > 0
          /\ ~SamplerFeasible(Len(words) - 1, num_masks)
          /\ sampler_calls' = Append(sampler_calls,
                                     [a |-> Len(words) - 1, size |-> num_masks])
    /\ mask_pc' = "raised"
    /\ mask_error' = "ValueError"
    /\ UNCHANGED <<texts, mask_ratio, max_words, masked_texts, sampled_indices>>
    /\ UNCHANGED rng_vars
    /\ UNCHANGED mask_frame

\* return masked_texts
MaskReturn ==
    /\ mask_pc = "run"
    /\ Len(masked_texts) = Len(texts)
    /\ mask_pc' = "returned"
    /\ UNCHANGED <<texts, mask_ratio, max_words, masked_texts, sampled_indices,
                   sampler_calls, mask_error>>
    /\ UNCHANGED rng_vars
    /\ UNCHANGED mask_frame

MaskNext == MaskNone \/ MaskSample \/ MaskRaise \/ MaskReturn


-----------------------------------------------------------------------------
(* Log-probabilities: exact rationals n/d (d > 0, lowest terms) and the    *)
(* IEEE values -inf, +inf, NaN                                             *)

Abs(x) == IF x < 0 THEN -x ELSE x

Min(a, b) == IF a <= b THEN a ELSE b

RECURSIVE GCD(_, _)
GCD(a, b) == IF b = 0 THEN a ELSE GCD(b, a % b)

Fin(n, d) ==
    LET g == GCD(Abs(n), d)
    IN [k |-> "fin", n |-> n \div g, d |-> d \div g]

NegInf == [k |-> "-inf", n |-> 0, d |-> 1]

PosInf == [k |-> "+inf", n |-> 0, d |-> 1]

NaN == [k |-> "nan", n |-> 0, d |-> 1]

RECURSIVE SumSeq(_)
SumSeq(xs) == IF xs = <<>> THEN 0 ELSE Head(xs) + SumSeq(Tail(xs))

-----------------------------------------------------------------------------
(* batch_average_log_prob: tokenizer, scoring model and reduction *)

\* computation_tokenizer.pad_token = computation_tokenizer.eos_token
pad_token_id == 0

\* the token ids of the model: the end-of-sequence id and one other id
Vocab == {pad_token_id, 1}

\* computation_tokenizer(batch_texts, padding=True): every row is padded on
\* the right with pad_token_id to the longest row; the mask marks the real
\* tokens
PadLength(batch_texts) ==
    IF batch_texts = <<>> THEN 0
    ELSE Max({Len(batch_texts[r]) : r \in 1..Len(batch_texts)})

TokenizerInputIds(batch_texts) ==
    [r \in 1..Len(batch_texts) |->
        [c \in 1..PadLength(batch_texts) |->
            IF c <= Len(batch_texts[r]) THEN batch_texts[r][c]
            ELSE pad_token_id]]

TokenizerAttentionMask(batch_texts) ==
    [r \in 1..Len(batch_texts) |->
        [c \in 1..PadLength(batch_texts) |->
            IF c <= Len(batch_texts[r]) THEN 1 ELSE 0]]

\* x[..., :-1]
ShiftLast(row) == SubSeq(row, 1, Len(row) - 1)

\* x[..., 1:]
Shift(row) == SubSeq(row, 2, Len(row))

\* the scoring model followed by the cross entropy of the label at position
\* c + 1 under the logits of position c: a fixed deterministic stand-in,
\* a positive loss that depends on the label and on the token before it
CrossEntropy(prev, label) == prev + label + 1

\* CrossEntropyLoss(reduction='none', ignore_index=pad_token_id) on
\* shift_logits = logits[..., :-1, :] and shift_labels = input_ids[..., 1:]
LossPerToken(ids) ==
    [c \in 1..(Len(ids) - 1) |->
        IF ids[c + 1] = pad_token_id THEN 0
        ELSE CrossEntropy(ids[c], ids[c + 1])]

\* a sum that takes the losses of all positions
MaskedLossSumUnmasked(loss, shift_mask) == SumSeq(loss)

\* (loss_per_token * shift_mask).sum(dim=1)
MaskedLossSum(loss, shift_mask) ==
    SumSeq([c \in 1..Len(loss) |-> loss[c] * shift_mask[c]])

\* valid_token_counts = shift_mask.sum(dim=1)
\* masked_losses = sum / valid_token_counts.clamp(min=1)
\* sample_log_probs = -masked_losses
\* sample_log_probs[valid_token_counts == 0] = float('-inf')
SampleLogProbClamped(loss, shift_mask) ==
    LET valid_token_count == SumSeq(shift_mask)
        clamped == IF valid_token_count < 1 THEN 1 ELSE valid_token_count
    IN Fin(-MaskedLossSum(loss, shift_mask), clamped)

SampleLogProb(loss, shift_mask) ==
    LET valid_token_count == SumSeq(shift_mask)
        clamped == IF valid_token_count < 1 THEN 1 ELSE valid_token_count
    IN IF valid_token_count = 0 THEN NegInf
       ELSE Fin(-MaskedLossSum(loss, shift_mask), clamped)

\* the per-sample loop of the earlier scorer:
\*     mask = shift_mask[j].bool()
\*     if mask.sum() > 0: -loss_per_token[j][mask].mean()
\*     else: float('-inf')
SelectedLosses(loss, shift_mask) ==
    LET RECURSIVE From(_)
        From(c) == IF c > Len(loss) THEN <<>>
                   ELSE (IF shift_mask[c] = 1 THEN <<loss[c]>> ELSE <<>>) \o From(c + 1)
    IN From(1)

SampleLogProbLoop(loss, shift_mask) ==
    IF SumSeq(shift_mask) > 0
    THEN Fin(-SumSeq(SelectedLosses(loss, shift_mask)),
             Len(SelectedLosses(loss, shift_mask)))
    ELSE NegInf

\* texts[i:i+batch_size], i being 0-based
BatchTexts(ts, i, bs) == SubSeq(ts, i + 1, Min(i + bs, Len(ts)))

\* all_log_probs.extend(sample_log_probs)
ExtendFront(all, more) == more \o all

Extend(all, more) == all \o more

-----------------------------------------------------------------------------
(* The reduction of batch_average_log_prob on its own: from the per-token  *)
(* losses and the attention mask of one row to the value of the row        *)

\* the per-token losses of the model
MaxLoss == 2

ReduceInit ==
    /\ \E l \in 0..MaxTokens :
         /\ loss_per_token \in [1..1 -> [1..l -> 0..MaxLoss]]
         /\ attention_mask \in [1..1 -> [1..(l + 1) -> {0, 1}]]
    /\ score_texts = <<>>
    /\ batch_size = 1
    /\ input_ids = <<>>
    /\ all_log_probs = <<>>
    /\ score_pc = "reduce"

\* valid counts, masked sum, clamp, negation, overwrite and extend
Reduce ==
    /\ score_pc = "reduce"
    /\ all_log_probs' =
         Extend(all_log_probs,
                [r \in 1..Len(loss_per_token) |->
                    SampleLogProb(loss_per_token[r], Shift(attention_mask[r]))])
    /\ score_pc' = "returned"
    /\ UNCHANGED <<score_texts, batch_size, input_ids, attention_mask, loss_per_token>>
    /\ UNCHANGED score_frame

-----------------------------------------------------------------------------
(* batch_average_log_prob: one action per iteration of                     *)
(* "for i in range(0, len(texts), batch_size)"                             *)

TokenSeqs == UNION {[1..l -> Vocab] : l \in 0..MaxTokens}

ScoreInit ==
    /\ \E n \in 1..MaxScoreTexts : score_texts \in [1..n -> TokenSeqs]
    /\ batch_size \in 1..MaxScoreTexts
    /\ input_ids = <<>>
    /\ attention_mask = <<>>
    /\ loss_per_token = <<>>
    /\ all_log_probs = <<>>
    /\ score_pc = "run"

\* the scorer when a specification does not exercise it
ScoreIdle ==
    /\ score_texts = <<>>
    /\ batch_size = 1
    /\ input_ids = <<>>
    /\ attention_mask = <<>>
    /\ loss_per_token = <<>>
    /\ all_log_probs = <<>>
    /\ score_pc = "idle"

\* one sub-batch: tokenize, score, reduce, extend
ScoreBatch ==
    /\ score_pc = "run"
    /\ Len(all_log_probs) < Len(score_texts)
    /\ LET batch_texts == BatchTexts(score_texts, Len(all_log_probs), batch_size)
           ids == TokenizerInputIds(batch_texts)
           mask == TokenizerAttentionMask(batch_texts)
           loss == [r \in 1..Len(ids) |-> LossPerToken(ids[r])]
           sample_log_probs ==
               [r \in 1..Len(ids) |-> SampleLogProb(loss[r], Shift(mask[r]))]
       IN /\ input_ids' = ids
          /\ attention_mask' = mask
          /\ loss_per_token' = loss
          /\ all_log_probs' = Extend(all_log_probs, sample_log_probs)
    /\ UNCHANGED <<score_texts, batch_size, score_pc>>
    /\ UNCHANGED score_frame

\* a sub-batch of empty texts only is padded to length 0; the forward pass
\* of the scoring model on such a tensor may raise, and the error leaves
\* the call
ScoreRaise ==
    /\ score_pc = "run"
    /\ Len(all_log_probs) < Len(score_texts)
    /\ PadLength(BatchTexts(score_texts, Len(all_log_probs), batch_size)) = 0
    /\ score_pc' = "raised"
    /\ UNCHANGED <<score_texts, batch_size, input_ids, attention_mask,
                   loss_per_token, all_log_probs>>
    /\ UNCHANGED score_frame

\* the tokenizer or the scoring model fails on a sub-batch: the exception
\* leaves batch_average_log_prob, nothing is returned
ScoreFail ==
    /\ score_pc = "run"
    /\ Len(all_log_probs) < Len(score_texts)
    /\ score_pc' = "raised"
    /\ UNCHANGED <<score_texts, batch_size, input_ids, attention_mask,
                   loss_per_token, all_log_probs>>
    /\ UNCHANGED score_frame

\* return all_log_probs
ScoreReturn ==
    /\ score_pc = "run"
    /\ Len(all_log_probs) = Len(score_texts)
    /\ score_pc' = "returned"
    /\ UNCHANGED <<score_texts, batch_size, input_ids, attention_mask,
                   loss_per_token, all_log_probs>>
    /\ UNCHANGED score_frame

ScoreNext == ScoreBatch \/ ScoreRaise \/ ScoreFail \/ ScoreReturn

-----------------------------------------------------------------------------
(* float64 arithmetic on log-probabilities, exact on the finite values *)

IsFin(a) == a.k = "fin"

NegV(a) ==
    CASE a.k = "fin" -> Fin(-a.n, a.d)
      [] a.k = "-inf" -> PosInf
      [] a.k = "+inf" -> NegInf
      [] OTHER -> NaN

AddV(a, b) ==
    CASE a.k = "nan" \/ b.k = "nan" -> NaN
      [] a.k = "fin" /\ b.k = "fin" -> Fin(a.n * b.d + b.n * a.d, a.d * b.d)
      [] a.k = "fin" -> b
      [] b.k = "fin" -> a
      [] a.k = b.k -> a
      [] OTHER -> NaN

SubV(a, b) == AddV(a, NegV(b))

\* a * a
SquareV(a) ==
    CASE a.k = "nan" -> NaN
      [] a.k = "fin" -> Fin(a.n * a.n, a.d * a.d)
      [] OTHER -> PosInf

\* a / m for an integer m >= 0; x / 0 is NaN for x = 0 and infinite otherwise
DivIntV(a, m) ==
    CASE a.k = "nan" -> NaN
      [] a.k = "fin" /\ m > 0 -> Fin(a.n, a.d * m)
      [] a.k = "fin" /\ a.n = 0 -> NaN
      [] a.k = "fin" /\ a.n > 0 -> PosInf
      [] a.k = "fin" -> NegInf
      [] OTHER -> a

RECURSIVE SumV(_)
SumV(xs) == IF xs = <<>> THEN Fin(0, 1) ELSE AddV(Head(xs), SumV(Tail(xs)))

\* np.mean(perturbed_log_probs)
NpMeanNoDivide(xs) == SumV(xs)

NpMean(xs) == DivIntV(SumV(xs), Len(xs))

\* np.var(perturbed_log_probs, ddof): the squared deviations from the mean,
\* summed and divided by max(len - ddof, 0)
NpVar(xs, ddof) ==
    LET mu == NpMean(xs)
        sq == [c \in 1..Len(xs) |-> SquareV(SubV(xs[c], mu))]
    IN DivIntV(SumV(sq), IF Len(xs) - ddof > 0 THEN Len(xs) - ddof ELSE 0)

\* sigma = np.std(perturbed_log_probs, ddof=1), kept as its square:
\* sigma is sqrt(SigmaSquared), NaN when SigmaSquared is NaN
SigmaSquaredPopulation(xs) == NpVar(xs, 0)

SigmaSquared(xs) == NpVar(xs, 1)

\* not (sigma <= 0) (true for NaN)
SigmaNotNonPositive(s2) == s2.k \in {"+inf", "nan"} \/ (s2.k = "fin" /\ s2.n > 0)

\* sigma > 0 (false for NaN)
SigmaPositive(s2) == s2.k = "+inf" \/ (s2.k = "fin" /\ s2.n > 0)

\* A score is the float (n/d) / sqrt(s2n/s2d), or an IEEE special value
Score(k, n, d, s2n, s2d) == [k |-> k, n |-> n, d |-> d, s2n |-> s2n, s2d |-> s2d]

\* float(x) for a log-probability difference x
ScoreOfValue(a) == Score(a.k, a.n, a.d, 1, 1)

\* float(0)
ScoreZero == Score("fin", 0, 1, 1, 1)

\* discrepancy_score_unormalized / sigma for sigma > 0
DivBySigma(a, s2) ==
    CASE a.k = "nan" -> ScoreOfValue(NaN)
      [] s2.k = "+inf" /\ a.k = "fin" -> ScoreZero
      [] s2.k = "+inf" -> ScoreOfValue(NaN)
      [] a.k = "fin" -> Score("fin", a.n, a.d, s2.n, s2.d)
      [] OTHER -> ScoreOfValue(a)

\* the body of the loop over zip(base, transformed)
DiscrepancyOfText(original_log_prob, perturbed_log_probs, norm) ==
    LET mu == NpMean(perturbed_log_probs)
        discrepancy_score_unormalized == SubV(original_log_prob, mu)
        sigma2 == SigmaSquared(perturbed_log_probs)
    IN IF norm
       THEN IF SigmaPositive(sigma2)
            THEN DivBySigma(discrepancy_score_unormalized, sigma2)
            ELSE ScoreZero
       ELSE ScoreOfValue(discrepancy_score_unormalized)

-----------------------------------------------------------------------------
(* compute_detectgpt_discrepancy: the call is one action *)

\* the log-probabilities a record may hold: values the scorer returns
LogProbValues == {NegInf, Fin(-3, 1), Fin(-2, 1)}

DiscInit ==
    /\ \E n \in 1..MaxSamples, p \in 1..MaxPerturbations :
         /\ log_probs_per_text_base \in [1..n -> LogProbValues]
         /\ log_probs_per_text_transformed \in [1..n -> [1..p -> LogProbValues]]
    /\ normalization = FALSE
    /\ discrepancy_scores = <<>>
    /\ disc_pc = "ready"

\* the aggregator when a specification does not exercise it
DiscIdle ==
    /\ log_probs_per_text_base = <<>>
    /\ log_probs_per_text_transformed = <<>>
    /\ normalization = FALSE
    /\ discrepancy_scores = <<>>
    /\ disc_pc = "idle"

\* zip stops at the shorter list; one score is appended per pair
ComputeDiscrepancy(norm) ==
    /\ disc_pc = "ready"
    /\ normalization' = norm
    /\ discrepancy_scores' =
         [i \in 1..Min(Len(log_probs_per_text_base),
                       Len(log_probs_per_text_transformed)) |->
             DiscrepancyOfText(log_probs_per_text_base[i],
                               log_probs_per_text_transformed[i], norm)]
    /\ disc_pc' = "returned"
    /\ UNCHANGED <<log_probs_per_text_base, log_probs_per_text_transformed>>
    /\ UNCHANGED disc_frame

ComputeUnnormalized == ComputeDiscrepancy(FALSE)

ComputeNormalized == ComputeDiscrepancy(TRUE)

DiscNext == ComputeUnnormalized \/ ComputeNormalized

-----------------------------------------------------------------------------
(* batch_extract_fills.  A decoded string is a sequence of lexemes: words, *)
(* placeholder markers, blanks, and the literals "<pad>" and "</s>".       *)
(* The decoded output of the infill model holds no line break, so "." of   *)
(* the pattern matches every character of it.                              *)

Space == [t |-> "s", v |-> 0]

\* "<pad>"
PadLiteral == [t |-> "p", v |-> 0]

\* "</s>"
EosLiteral == [t |-> "p", v |-> 1]

IsSpace(l) == l.t = "s"

\* text.replace("<pad>", "").replace("</s>", "")
RemoveLiterals(text) == SelectSeq(text, LAMBDA l : l.t # "p")

\* str.strip(), and the two \s* of the pattern around the captured group
RECURSIVE StripLeft(_)
StripLeft(text) ==
    IF text # <<>> /\ IsSpace(Head(text)) THEN StripLeft(Tail(text)) ELSE text

RECURSIVE StripRight(_)
StripRight(text) ==
    IF text # <<>> /\ IsSpace(text[Len(text)])
    THEN StripRight(SubSeq(text, 1, Len(text) - 1))
    ELSE text

Strip(text) == StripRight(StripLeft(text))

\* the position of the first marker <extra_id_\d+> at or after pos,
\* Len(text) + 1 when there is none
RECURSIVE NextMarker(_, _)
NextMarker(text, pos) ==
    IF pos > Len(text) THEN Len(text) + 1
    ELSE IF IsExtraId(text[pos]) THEN pos
    ELSE NextMarker(text, pos + 1)

\* the same scan with a greedy group (.*): the group of the first match
\* runs to the end of the string
FindAllGreedy(text, pos, acc) ==
    LET q == NextMarker(text, pos)
    IN IF q > Len(text) THEN acc
       ELSE Append(acc, Strip(SubSeq(text, q + 1, Len(text))))

\* re.findall(r"<extra_id_\d+>\s*(.*?)\s*(?=<extra_id_\d+>|$)", text):
\* the matches are found left to right; each starts at a marker and its
\* group is the shortest run that is followed by blanks and then by a
\* marker or the end, that is the stripped text up to the next marker
RECURSIVE FindAll(_, _, _)
FindAll(text, pos, acc) ==
    LET q == NextMarker(text, pos)
        e == NextMarker(text, q + 1)
    IN IF q > Len(text) THEN acc
       ELSE FindAll(text, e, Append(acc, Strip(SubSeq(text, q + 1, e - 1))))

\* the element of the list comprehension for one text
ExtractFills(text) == FindAll(Strip(RemoveLiterals(text)), 1, <<>>)

\* the lexemes of the model: two markers, two words, the blank and the
\* two literals
Lexemes == {ExtraId(0), ExtraId(1), Word(1), Word(2), Space, PadLiteral, EosLiteral}

RawStrings == UNION {[1..l -> Lexemes] : l \in 0..MaxRawLen}

ExtractInit ==
    /\ raw_text \in RawStrings
    /\ extracted_fills = <<>>
    /\ extract_pc = "ready"

\* the extractor when a specification does not exercise it
ExtractIdle ==
    /\ raw_text = <<>>
    /\ extracted_fills = <<>>
    /\ extract_pc = "idle"

ExtractText ==
    /\ extract_pc = "ready"
    /\ extracted_fills' = ExtractFills(raw_text)
    /\ extract_pc' = "returned"
    /\ UNCHANGED raw_text
    /\ UNCHANGED extract_frame

ExtractNext == ExtractText

-----------------------------------------------------------------------------
(* replace_masks and batch_apply_extracted_fills.  The masked text is the   *)
(* sequence of its words and placeholders; a fill is a sequence of words    *)
(* (possibly empty, possibly holding a placeholder marker).                 *)

\* the position of the first occurrence of tok in text, 0 when absent
FirstOccurrence(text, tok) ==
    IF \E p \in 1..Len(text) : text[p] = tok
    THEN CHOOSE p \in 1..Len(text) :
            text[p] = tok /\ \A r \in 1..(p - 1) : text[r] # tok
    ELSE 0

\* text.replace(old, new): every occurrence is replaced
RECURSIVE ReplaceEvery(_, _, _)
ReplaceEvery(text, old, new) ==
    IF text = <<>> THEN <<>>
    ELSE (IF Head(text) = old THEN new ELSE <<Head(text)>>)
         \o ReplaceEvery(Tail(text), old, new)

\* text.replace(old, new, 1): only the first occurrence is replaced
ReplaceFirst(text, old, new) ==
    LET p == FirstOccurrence(text, old)
    IN IF p = 0 THEN text
       ELSE SubSeq(text, 1, p - 1) \o new \o SubSeq(text, p + 1, Len(text))

\* for i, fill in enumerate(fills):
\*     text = text.replace(f"<extra_id_{i}>", fill, 1)
\* (i is the 1-based position in fills, the placeholder index is i - 1)
RECURSIVE ReplaceMasksFrom(_, _, _)
ReplaceMasksFrom(text, fs, i) ==
    IF i > Len(fs) THEN text
    ELSE ReplaceMasksFrom(ReplaceFirst(text, ExtraId(i - 1), fs[i]), fs, i + 1)

replace_masks(text, fs) == ReplaceMasksFrom(text, fs, 1)

\* an applier that drops the placeholders of a text without fills
ApplyPairDropping(text, fs) ==
    IF fs = <<>> THEN SelectSeq(text, LAMBDA l : ~IsExtraId(l))
    ELSE replace_masks(text, fs)

\* masked_text if not fills else replace_masks(masked_text, fills)
ApplyPair(text, fs) == IF fs = <<>> THEN text ELSE replace_masks(text, fs)

\* the fills of the model: the empty fill, one word, two words, and a fill
\* that holds a placeholder marker
FillStrings == {<<>>, <<Word(8)>>, <<Word(8), Word(9)>>, <<ExtraId(1)>>}

FillSets == UNION {[1..f -> FillStrings] : f \in 0..MaxFills}

MaskedLexemes == {ExtraId(0), ExtraId(1), ExtraId(2), Word(1)}

MaskedStrings == UNION {[1..l -> MaskedLexemes] : l \in 0..MaxMaskedLen}

ApplyInit ==
    /\ masked_text \in MaskedStrings
    /\ fills \in FillSets
    /\ perturbed_text = <<>>
    /\ apply_pc = "ready"

\* the applier when a specification does not exercise it
ApplyIdle ==
    /\ masked_text = <<>>
    /\ fills = <<>>
    /\ perturbed_text = <<>>
    /\ apply_pc = "idle"

\* a pair whose fill set is empty
ApplyUnchanged ==
    /\ apply_pc = "ready"
    /\ fills = <<>>
    /\ perturbed_text' = ApplyPair(masked_text, fills)
    /\ apply_pc' = "returned"
    /\ UNCHANGED <<masked_text, fills>>
    /\ UNCHANGED apply_frame

\* a pair whose fill set is not empty
ApplyFills ==
    /\ apply_pc = "ready"
    /\ fills # <<>>
    /\ perturbed_text' = ApplyPair(masked_text, fills)
    /\ apply_pc' = "returned"
    /\ UNCHANGED <<masked_text, fills>>
    /\ UNCHANGED apply_frame

ApplyNext == ApplyUnchanged \/ ApplyFills

-----------------------------------------------------------------------------
(* batch_replace_masks: one action per iteration of                        *)
(* "for i in range(0, len(texts), batch_size)"                             *)

\* text.count("<extra_id_")
CountExtraId(text) == Cardinality({p \in 1..Len(text) : IsExtraId(text[p])})

\* n_expected = [text.count("<extra_id_") for text in batch_texts]
NExpected(batch) == [k \in 1..Len(batch) |-> CountExtraId(batch[k])]

\* max(n_expected)
MaxOfList(ns) == Max({ns[k] : k \in 1..Len(ns)})

\* t5_tokenizer.eos_token_id, the id of "</s>"
EosToken == EosLiteral

\* stop_id = encode(f"<extra_id_{max(n_expected)}>")[0] if n_expected
\*           else eos_token_id
\* (n_expected is a list: it is true exactly when the chunk is not empty)
StopId(batch) ==
    IF NExpected(batch) # <<>> THEN ExtraId(MaxOfList(NExpected(batch)))
    ELSE EosToken

\* the word the infill model proposes for placeholder k of a text
FillWord(text, k) == Word(10 * (Len(text) + 1) + k)

\* t5_model.generate(..., eos_token_id=stop_id) followed by batch_decode
\* for one text: a fixed infill model that answers "<pad>", then for each
\* k from 0 the marker <extra_id_k>, a blank and a word, and that ends
\* with the stop token as soon as it is due: the marker <extra_id_s> for
\* the stop token <extra_id_s>, "</s>" after the fills of the text's own
\* placeholders for the end-of-sequence stop token
RECURSIVE GenerateFrom(_, _, _)
GenerateFrom(text, stop, k) ==
    IF stop = ExtraId(k) THEN <<ExtraId(k)>>
    ELSE IF stop = EosToken /\ k >= CountExtraId(text) THEN <<EosLiteral>>
    ELSE <<ExtraId(k), Space, FillWord(text, k)>> \o GenerateFrom(text, stop, k + 1)

Generate(text, stop) == <<PadLiteral>> \o GenerateFrom(text, stop, 0)

\* a decoding that returns the outputs of a chunk in reverse order
BatchDecodedReversed(batch, stop) ==
    [k \in 1..Len(batch) |-> Generate(batch[Len(batch) + 1 - k], stop)]

\* batch_decoded for one chunk
BatchDecoded(batch, stop) == [k \in 1..Len(batch) |-> Generate(batch[k], stop)]

InfillLexemes == {ExtraId(0), ExtraId(1), Word(1)}

InfillStrings == UNION {[1..l -> InfillLexemes] : l \in 0..MaxInfillLen}

InfillInit ==
    /\ \E n \in 0..MaxInfillTexts : infill_texts \in [1..n -> InfillStrings]
    /\ infill_batch_size \in 1..MaxInfillTexts
    /\ stop_ids = <<>>
    /\ all_outputs = <<>>
    /\ infill_pc = "run"

\* the infill requester when a specification does not exercise it
InfillIdle ==
    /\ infill_texts = <<>>
    /\ infill_batch_size = 1
    /\ stop_ids = <<>>
    /\ all_outputs = <<>>
    /\ infill_pc = "idle"

\* one chunk: stop token, tokenizer, generation, decoding, extend
InfillChunk ==
    /\ infill_pc = "run"
    /\ Len(all_outputs) < Len(infill_texts)
    /\ LET batch_texts == BatchTexts(infill_texts, Len(all_outputs), infill_batch_size)
           stop_id == StopId(batch_texts)
       IN /\ stop_ids' = Append(stop_ids, stop_id)
          /\ all_outputs' = Extend(all_outputs, BatchDecoded(batch_texts, stop_id))
    /\ UNCHANGED <<infill_texts, infill_batch_size, infill_pc>>
    /\ UNCHANGED infill_frame

\* the tokenizer or the model invocation of a chunk fails: the exception
\* leaves batch_replace_masks, nothing is returned
InfillFail ==
    /\ infill_pc = "run"
    /\ Len(all_outputs) < Len(infill_texts)
    /\ infill_pc' = "raised"
    /\ UNCHANGED <<infill_texts, infill_batch_size, stop_ids, all_outputs>>
    /\ UNCHANGED infill_frame

\* return all_outputs
InfillReturn ==
    /\ infill_pc = "run"
    /\ Len(all_outputs) = Len(infill_texts)
    /\ infill_pc' = "returned"
    /\ UNCHANGED <<infill_texts, infill_batch_size, stop_ids, all_outputs>>
    /\ UNCHANGED infill_frame

InfillNext == InfillChunk \/ InfillFail \/ InfillReturn

-----------------------------------------------------------------------------
(* compute_detectgpt_discrepancy called again on the record of an earlier  *)
(* call, as the analysis cells do on a persisted record                    *)

\* the record after a call that centres the perturbed values in place
CentredInPlace ==
    [i \in 1..Len(log_probs_per_text_transformed) |->
        [c \in 1..Len(log_probs_per_text_transformed[i]) |->
            SubV(log_probs_per_text_transformed[i][c],
                 NpMean(log_probs_per_text_transformed[i]))]]

\* a later call that centres the perturbed values of the record in place
RederiveInPlace(norm) ==
    /\ disc_pc = "returned"
    /\ derived' = [derived EXCEPT ![normalization] =
                      [done |-> TRUE, scores |-> discrepancy_scores]]
    /\ normalization' = norm
    /\ discrepancy_scores' =
         [i \in 1..Min(Len(log_probs_per_text_base),
                       Len(log_probs_per_text_transformed)) |->
             DiscrepancyOfText(log_probs_per_text_base[i],
                               log_probs_per_text_transformed[i], norm)]
    /\ log_probs_per_text_transformed' = CentredInPlace
    /\ UNCHANGED <<log_probs_per_text_base, disc_pc>>
    /\ UNCHANGED <<run, first_run>>
    /\ UNCHANGED <<mask_vars, score_vars, extract_vars, apply_vars, infill_vars,
                   op_vars, rng_vars>>

\* a later call on the same record: the scores of the call before it are
\* kept under its flag for comparison, then the call is made
Rederive(norm) ==
    /\ disc_pc = "returned"
    /\ derived' = [derived EXCEPT ![normalization] =
                      [done |-> TRUE, scores |-> discrepancy_scores]]
    /\ normalization' = norm
    /\ discrepancy_scores' =
         [i \in 1..Min(Len(log_probs_per_text_base),
                       Len(log_probs_per_text_transformed)) |->
             DiscrepancyOfText(log_probs_per_text_base[i],
                               log_probs_per_text_transformed[i], norm)]
    /\ UNCHANGED <<log_probs_per_text_base, log_probs_per_text_transformed, disc_pc>>
    /\ UNCHANGED <<run, first_run>>
    /\ UNCHANGED <<mask_vars, score_vars, extract_vars, apply_vars, infill_vars,
                   op_vars, rng_vars>>

RederiveUnnormalized == Rederive(FALSE)

RederiveNormalized == Rederive(TRUE)

RederiveNext == DiscNext \/ RederiveUnnormalized \/ RederiveNormalized

-----------------------------------------------------------------------------
(* The masker followed by the applier, the infill being the "perfect       *)
(* infill" of the round-trip property: fill i is the one word that the     *)
(* masker overwrote with placeholder i.                                    *)

\* the fill set of the perfect infill for text j
PerfectFills(j) ==
    LET words == Truncate(texts[j], max_words)
    IN [i \in 1..Len(sampled_indices[j]) |-> <<words[sampled_indices[j][i] + 1]>>]

\* the pair (masked text j, its perfect fill set) is handed to the applier
PerfectInfill ==
    /\ mask_pc = "returned"
    /\ apply_pc = "idle"
    /\ \E j \in 1..Len(masked_texts) :
         /\ masked_text' = masked_texts[j]
         /\ fills' = PerfectFills(j)
    /\ apply_pc' = "ready"
    /\ UNCHANGED perturbed_text
    /\ UNCHANGED <<mask_vars, score_vars, disc_vars, extract_vars, infill_vars,
                   op_vars, rng_vars, run_vars>>

RoundTripNext == MaskNext \/ PerfectInfill \/ ApplyNext

-----------------------------------------------------------------------------
(* optimized_processing, t5_perturbation and the cell that runs them and   *)
(* then the aggregator.  The functions they call are the components        *)
(* above: a call sets the component's arguments and starts it, the caller  *)
(* goes on when the component has returned.                                *)

\* defaults of batch_mask_text, which t5_perturbation does not override
default_mask_ratio == Ratio(15, 100)

default_max_words == 370

\* the least word count that gets a mask under the default ratio
LeastMaskedLen ==
    CHOOSE l \in 1..default_mask_ratio.den :
       /\ NumMasks(PlainText(l), default_mask_ratio) >= 1
       /\ \A m \in 1..(l - 1) : NumMasks(PlainText(m), default_mask_ratio) = 0

\* the texts of the model: the empty text, a text of one word, and the
\* shortest text that gets masked
PipeTexts == {PlainText(0), PlainText(1), PlainText(LeastMaskedLen)}

\* the scoring tokenizer on a text: one token per word, placeholder or
\* fill; the first word of a text has a token of its own
TokenId(l) == IF l = Word(1) THEN 2 ELSE 1

Tokens(text) == [k \in 1..Len(text) |-> TokenId(text[k])]

OPInit ==
    /\ \E n \in 0..MaxPipeTexts : original_texts \in [1..n -> PipeTexts]
    /\ n_perturbations \in 0..MaxRounds
    /\ op_batch_size \in 1..MaxPipeTexts
    /\ perturbation_idx = 0
    /\ all_masked_texts = <<>>
    /\ all_raw_fills = <<>>
    /\ all_extracted_fills = <<>>
    /\ all_perturbed_texts = <<>>
    /\ events = <<>>
    /\ op_pc = "start"

\* the pipeline when a specification does not exercise it
OPIdle ==
    /\ original_texts = <<>>
    /\ n_perturbations = 0
    /\ op_batch_size = 1
    /\ perturbation_idx = 0
    /\ all_masked_texts = <<>>
    /\ all_raw_fills = <<>>
    /\ all_extracted_fills = <<>>
    /\ all_perturbed_texts = <<>>
    /\ events = <<>>
    /\ op_pc = "idle"

\* a call has returned to its caller: its arguments and locals are gone
MaskReleased ==
    /\ texts' = <<>>
    /\ mask_ratio' = Ratio(1, 1)
    /\ max_words' = 0
    /\ masked_texts' = <<>>
    /\ sampled_indices' = <<>>
    /\ sampler_calls' = <<>>
    /\ mask_pc' = "idle"
    /\ mask_error' = ""

InfillReleased ==
    /\ infill_texts' = <<>>
    /\ infill_batch_size' = 1
    /\ stop_ids' = <<>>
    /\ all_outputs' = <<>>
    /\ infill_pc' = "idle"

ScoreReleased ==
    /\ score_texts' = <<>>
    /\ batch_size' = 1
    /\ input_ids' = <<>>
    /\ attention_mask' = <<>>
    /\ loss_per_token' = <<>>
    /\ all_log_probs' = <<>>
    /\ score_pc' = "idle"

\* a single run
RunSingle ==
    /\ run = 1
    /\ first_run = <<>>
    /\ derived = [flag \in BOOLEAN |-> [done |-> FALSE, scores |-> <<>>]]

\* batch_average_log_prob(ts, batch_size) is called
CallScorer(ts) ==
    /\ score_texts' = [j \in 1..Len(ts) |-> Tokens(ts[j])]
    /\ batch_size' = op_batch_size
    /\ input_ids' = <<>>
    /\ attention_mask' = <<>>
    /\ loss_per_token' = <<>>
    /\ all_log_probs' = <<>>
    /\ score_pc' = "run"
    /\ events' = Append(events, "score")

\* log_probs_per_text_base = batch_average_log_prob(original_texts, ...):
\* the call
OPScoreOriginals ==
    /\ op_pc = "start"
    /\ CallScorer(original_texts)
    /\ op_pc' = "score_base"
    /\ UNCHANGED <<original_texts, n_perturbations, op_batch_size, perturbation_idx,
                   all_masked_texts, all_raw_fills, all_extracted_fills,
                   all_perturbed_texts>>
    /\ UNCHANGED <<mask_vars, disc_vars, extract_vars, apply_vars, infill_vars>>
    /\ UNCHANGED <<rng_vars, run_vars>>

\* ... and the assignment of its result; the locals of the call that has
\* returned are gone
OPBaseScored ==
    /\ op_pc = "score_base"
    /\ score_pc = "returned"
    /\ log_probs_per_text_base' = all_log_probs
    /\ op_pc' = "loop"
    /\ ScoreReleased
    /\ UNCHANGED <<log_probs_per_text_transformed, normalization,
                   discrepancy_scores, disc_pc>>
    /\ UNCHANGED <<original_texts, n_perturbations, op_batch_size, perturbation_idx,
                   all_masked_texts, all_raw_fills, all_extracted_fills,
                   all_perturbed_texts, events>>
    /\ UNCHANGED <<mask_vars, extract_vars, apply_vars, infill_vars>>
    /\ UNCHANGED <<rng_vars, run_vars>>

\* a loop iteration starts: t5_perturbation is called and calls
\* batch_mask_text(text) with the default ratio and max_words
T5Mask ==
    /\ op_pc = "loop"
    /\ perturbation_idx < n_perturbations
    /\ texts' = original_texts
    /\ mask_ratio' = default_mask_ratio
    /\ max_words' = default_max_words
    /\ masked_texts' = <<>>
    /\ sampled_indices' = <<>>
    /\ sampler_calls' = <<>>
    /\ mask_pc' = "run"
    /\ mask_error' = ""
    /\ events' = Append(events, "mask")
    /\ op_pc' = "mask"
    /\ UNCHANGED <<original_texts, n_perturbations, op_batch_size, perturbation_idx,
                   all_masked_texts, all_raw_fills, all_extracted_fills,
                   all_perturbed_texts>>
    /\ UNCHANGED <<score_vars, disc_vars, extract_vars, apply_vars, infill_vars>>
    /\ UNCHANGED <<rng_vars, run_vars>>

\* all_masked_texts is assigned and batch_replace_masks is called; the
\* locals of the call that has returned are gone
T5Infill ==
    /\ op_pc = "mask"
    /\ mask_pc = "returned"
    /\ all_masked_texts' = masked_texts
    /\ infill_texts' = masked_texts
    /\ infill_batch_size' = op_batch_size
    /\ stop_ids' = <<>>
    /\ all_outputs' = <<>>
    /\ infill_pc' = "run"
    /\ events' = Append(events, "infill")
    /\ op_pc' = "infill"
    /\ MaskReleased
    /\ UNCHANGED <<original_texts, n_perturbations, op_batch_size, perturbation_idx,
                   all_raw_fills, all_extracted_fills, all_perturbed_texts>>
    /\ UNCHANGED <<score_vars, disc_vars, extract_vars, apply_vars>>
    /\ UNCHANGED <<rng_vars, run_vars>>

\* all_raw_fills is assigned and batch_extract_fills computes the fills
T5Extract ==
    /\ op_pc = "infill"
    /\ infill_pc = "returned"
    /\ all_raw_fills' = all_outputs
    /\ all_extracted_fills' =
         [j \in 1..Len(all_outputs) |-> ExtractFills(all_outputs[j])]
    /\ events' = Append(events, "extract")
    /\ op_pc' = "extract"
    /\ InfillReleased
    /\ UNCHANGED <<original_texts, n_perturbations, op_batch_size, perturbation_idx,
                   all_masked_texts, all_perturbed_texts>>
    /\ UNCHANGED <<mask_vars, score_vars, disc_vars, extract_vars, apply_vars>>
    /\ UNCHANGED <<rng_vars, run_vars>>

\* batch_apply_extracted_fills: zip stops at the shorter list
T5Apply ==
    /\ op_pc = "extract"
    /\ all_perturbed_texts' =
         [j \in 1..Min(Len(all_masked_texts), Len(all_extracted_fills)) |->
             ApplyPair(all_masked_texts[j], all_extracted_fills[j])]
    /\ events' = Append(events, "apply")
    /\ op_pc' = "apply"
    /\ UNCHANGED <<original_texts, n_perturbations, op_batch_size, perturbation_idx,
                   all_masked_texts, all_raw_fills, all_extracted_fills>>
    /\ UNCHANGED <<mask_vars, score_vars, disc_vars, extract_vars, apply_vars,
                   infill_vars>>
    /\ UNCHANGED <<rng_vars, run_vars>>

\* a loop that takes the perturbed texts of a round as the texts of the
\* next round
OPScoreRoundOverwriting ==
    /\ op_pc = "apply"
    /\ CallScorer(all_perturbed_texts)
    /\ op_pc' = "score_round"
    /\ original_texts' = all_perturbed_texts
    /\ all_masked_texts' = <<>>
    /\ all_raw_fills' = <<>>
    /\ all_extracted_fills' = <<>>
    /\ UNCHANGED <<n_perturbations, op_batch_size, perturbation_idx,
                   all_perturbed_texts>>
    /\ UNCHANGED <<mask_vars, disc_vars, extract_vars, apply_vars, infill_vars>>
    /\ UNCHANGED <<rng_vars, run_vars>>

\* t5_perturbation returns (its locals are gone) and the perturbed texts
\* are given to the scorer
OPScoreRound ==
    /\ op_pc = "apply"
    /\ CallScorer(all_perturbed_texts)
    /\ op_pc' = "score_round"
    /\ all_masked_texts' = <<>>
    /\ all_raw_fills' = <<>>
    /\ all_extracted_fills' = <<>>
    /\ UNCHANGED <<original_texts, n_perturbations, op_batch_size, perturbation_idx,
                   all_perturbed_texts>>
    /\ UNCHANGED <<mask_vars, disc_vars, extract_vars, apply_vars, infill_vars>>
    /\ UNCHANGED <<rng_vars, run_vars>>

\* an accumulation that puts the score of a round in front of the scores
\* of the earlier rounds
OPRoundScoredPrepending ==
    /\ op_pc = "score_round"
    /\ score_pc = "returned"
    /\ Len(all_log_probs) >= Len(original_texts)
    /\ log_probs_per_text_transformed' =
         [j \in 1..Len(original_texts) |->
             <<all_log_probs[j]>> \o
                (IF perturbation_idx = 0 THEN <<>>
                 ELSE log_probs_per_text_transformed[j])]
    /\ perturbation_idx' = perturbation_idx + 1
    /\ op_pc' = "loop"
    /\ ScoreReleased
    /\ all_perturbed_texts' = <<>>
    /\ UNCHANGED <<log_probs_per_text_base, normalization, discrepancy_scores,
                   disc_pc>>
    /\ UNCHANGED <<original_texts, n_perturbations, op_batch_size,
                   all_masked_texts, all_raw_fills, all_extracted_fills, events>>
    /\ UNCHANGED <<mask_vars, extract_vars, apply_vars, infill_vars>>
    /\ UNCHANGED <<rng_vars, run_vars>>

\* for j in range(n_samples): the scores of the round are appended to the
\* per-text lists, which are created in the first round.  The perturbed
\* texts and their scores are not read again: the next iteration assigns
\* both before any use, so they are dropped here.
OPRoundScored ==
    /\ op_pc = "score_round"
    /\ score_pc = "returned"
    /\ Len(all_log_probs) >= Len(original_texts)
    /\ log_probs_per_text_transformed' =
         [j \in 1..Len(original_texts) |->
             Append(IF perturbation_idx = 0 THEN <<>>
                    ELSE log_probs_per_text_transformed[j],
                    all_log_probs[j])]
    /\ perturbation_idx' = perturbation_idx + 1
    /\ op_pc' = "loop"
    /\ ScoreReleased
    /\ all_perturbed_texts' = <<>>
    /\ UNCHANGED <<log_probs_per_text_base, normalization, discrepancy_scores,
                   disc_pc>>
    /\ UNCHANGED <<original_texts, n_perturbations, op_batch_size,
                   all_masked_texts, all_raw_fills, all_extracted_fills, events>>
    /\ UNCHANGED <<mask_vars, extract_vars, apply_vars, infill_vars>>
    /\ UNCHANGED <<rng_vars, run_vars>>

\* a caller that swallows the exception of the scorer and goes on with
\* the next round
OPScorerFailedSkipped ==
    /\ op_pc \in {"score_base", "score_round"}
    /\ score_pc = "raised"
    /\ op_pc' = "loop"
    /\ ScoreReleased
    /\ UNCHANGED <<original_texts, n_perturbations, op_batch_size, perturbation_idx,
                   all_masked_texts, all_raw_fills, all_extracted_fills,
                   all_perturbed_texts, events>>
    /\ UNCHANGED <<mask_vars, disc_vars, extract_vars, apply_vars, infill_vars>>
    /\ UNCHANGED <<rng_vars, run_vars>>

\* an exception of the scorer leaves optimized_processing
OPScorerFailed ==
    /\ op_pc \in {"score_base", "score_round"}
    /\ score_pc = "raised"
    /\ op_pc' = "raised"
    /\ UNCHANGED <<original_texts, n_perturbations, op_batch_size, perturbation_idx,
                   all_masked_texts, all_raw_fills, all_extracted_fills,
                   all_perturbed_texts, events>>
    /\ UNCHANGED <<mask_vars, score_vars, disc_vars, extract_vars, apply_vars,
                   infill_vars>>
    /\ UNCHANGED <<rng_vars, run_vars>>

\* an exception of the infill requester leaves t5_perturbation and
\* optimized_processing
OPInfillFailed ==
    /\ op_pc = "infill"
    /\ infill_pc = "raised"
    /\ op_pc' = "raised"
    /\ UNCHANGED <<original_texts, n_perturbations, op_batch_size, perturbation_idx,
                   all_masked_texts, all_raw_fills, all_extracted_fills,
                   all_perturbed_texts, events>>
    /\ UNCHANGED <<mask_vars, score_vars, disc_vars, extract_vars, apply_vars,
                   infill_vars>>
    /\ UNCHANGED <<rng_vars, run_vars>>

\* a return that does not wait for the last round
OPReturnEarly ==
    /\ op_pc = "loop"
    /\ op_pc' = "returned"
    /\ UNCHANGED <<original_texts, n_perturbations, op_batch_size, perturbation_idx,
                   all_masked_texts, all_raw_fills, all_extracted_fills,
                   all_perturbed_texts, events>>
    /\ UNCHANGED <<mask_vars, score_vars, disc_vars, extract_vars, apply_vars,
                   infill_vars>>
    /\ UNCHANGED <<rng_vars, run_vars>>

\* return log_probs_per_text_base, log_probs_per_text_transformed
OPReturn ==
    /\ op_pc = "loop"
    /\ ~(perturbation_idx < n_perturbations)
    /\ op_pc' = "returned"
    /\ UNCHANGED <<original_texts, n_perturbations, op_batch_size, perturbation_idx,
                   all_masked_texts, all_raw_fills, all_extracted_fills,
                   all_perturbed_texts, events>>
    /\ UNCHANGED <<mask_vars, score_vars, disc_vars, extract_vars, apply_vars,
                   infill_vars>>
    /\ UNCHANGED <<rng_vars, run_vars>>

\* the cell calls compute_detectgpt_discrepancy on the two results
CellAggregate ==
    /\ op_pc = "returned"
    /\ disc_pc' = "ready"
    /\ events' = Append(events, "aggregate")
    /\ op_pc' = "aggregate"
    /\ UNCHANGED <<log_probs_per_text_base, log_probs_per_text_transformed,
                   normalization, discrepancy_scores>>
    /\ UNCHANGED <<original_texts, n_perturbations, op_batch_size, perturbation_idx,
                   all_masked_texts, all_raw_fills, all_extracted_fills,
                   all_perturbed_texts>>
    /\ UNCHANGED <<mask_vars, score_vars, extract_vars, apply_vars, infill_vars>>
    /\ UNCHANGED <<rng_vars, run_vars>>

\* the cell is run a second time on the same data with the same
\* parameters, the generator being seeded as for the first run; the
\* results of the first run are kept for comparison
SecondRun ==
    /\ run = 1
    /\ rng_mode = "seeded"
    /\ op_pc = "aggregate"
    /\ disc_pc = "returned"
    /\ first_run' = [base |-> log_probs_per_text_base,
                     transformed |-> log_probs_per_text_transformed,
                     scores |-> discrepancy_scores]
    /\ run' = 2
    /\ rng_state' = Reseed(rng_state, rng_seed)
    /\ log_probs_per_text_base' = <<>>
    /\ log_probs_per_text_transformed' = <<>>
    /\ normalization' = FALSE
    /\ discrepancy_scores' = <<>>
    /\ disc_pc' = "idle"
    /\ perturbation_idx' = 0
    /\ events' = <<>>
    /\ op_pc' = "start"
    /\ UNCHANGED <<original_texts, n_perturbations, op_batch_size,
                   all_masked_texts, all_raw_fills, all_extracted_fills,
                   all_perturbed_texts, rng_mode, rng_seed, derived>>
    /\ UNCHANGED <<mask_vars, score_vars, extract_vars, apply_vars, infill_vars>>

OPNext ==
    \/ OPScoreOriginals \/ OPBaseScored \/ T5Mask \/ T5Infill \/ T5Extract
    \/ T5Apply \/ OPScoreRound \/ OPRoundScored \/ OPScorerFailed
    \/ OPInfillFailed \/ OPReturn \/ CellAggregate

\* the pipeline with the components it calls; the masker is never asked
\* for an infeasible sample under the default ratio, and the cell runs the
\* aggregator without normalization
PipelineNext ==
    \/ OPNext
    \/ MaskNone \/ MaskSample \/ MaskReturn
    \/ InfillNext
    \/ ScoreNext
    \/ ComputeUnnormalized

-----------------------------------------------------------------------------
(* Specifications: each exercises one component, the others stay idle *)

SpecMaskInit ==
    /\ MaskInit /\ ScoreIdle /\ DiscIdle /\ ExtractIdle /\ ApplyIdle /\ InfillIdle /\ OPIdle
    /\ RngFree /\ RunSingle

SpecMask == SpecMaskInit /\ [][MaskNext]_vars

SpecScoreInit ==
    /\ ScoreInit /\ MaskIdle /\ DiscIdle /\ ExtractIdle /\ ApplyIdle /\ InfillIdle /\ OPIdle
    /\ RngFree /\ RunSingle

SpecScore == SpecScoreInit /\ [][ScoreNext]_vars

SpecReduceInit ==
    /\ ReduceInit /\ MaskIdle /\ DiscIdle /\ ExtractIdle /\ ApplyIdle /\ InfillIdle /\ OPIdle
    /\ RngFree /\ RunSingle

SpecReduce == SpecReduceInit /\ [][Reduce]_vars

SpecDiscInit ==
    /\ DiscInit /\ MaskIdle /\ ScoreIdle /\ ExtractIdle /\ ApplyIdle /\ InfillIdle /\ OPIdle
    /\ RngFree /\ RunSingle

SpecDisc == SpecDiscInit /\ [][DiscNext]_vars

SpecRederive == SpecDiscInit /\ [][RederiveNext]_vars

SpecExtractInit ==
    /\ ExtractInit /\ MaskIdle /\ ScoreIdle /\ DiscIdle /\ ApplyIdle /\ InfillIdle /\ OPIdle
    /\ RngFree /\ RunSingle

SpecExtract == SpecExtractInit /\ [][ExtractNext]_vars

SpecApplyInit ==
    /\ ApplyInit /\ MaskIdle /\ ScoreIdle /\ DiscIdle /\ ExtractIdle /\ InfillIdle /\ OPIdle
    /\ RngFree /\ RunSingle

SpecApply == SpecApplyInit /\ [][ApplyNext]_vars

SpecInfillInit ==
    /\ InfillInit /\ MaskIdle /\ ScoreIdle /\ DiscIdle /\ ExtractIdle /\ ApplyIdle
    /\ OPIdle /\ RngFree /\ RunSingle

SpecInfill == SpecInfillInit /\ [][InfillNext]_vars

SpecPipelineInit ==
    /\ OPInit
    /\ MaskIdle /\ ScoreIdle /\ DiscIdle /\ ExtractIdle /\ ApplyIdle /\ InfillIdle
    /\ RngFree /\ RunSingle

SpecPipeline == SpecPipelineInit /\ [][PipelineNext]_vars

SpecTwoRunsInit ==
    /\ OPInit
    /\ MaskIdle /\ ScoreIdle /\ DiscIdle /\ ExtractIdle /\ ApplyIdle /\ InfillIdle
    /\ RngSeeded /\ RunSingle

SpecTwoRuns == SpecTwoRunsInit /\ [][PipelineNext \/ SecondRun]_vars

SpecRoundTrip == SpecMaskInit /\ [][RoundTripNext]_vars

-----------------------------------------------------------------------------
(* Claims about batch_mask_text *)

\* iteration j of the loop has been executed (it appended, or it raised)
MaskProcessed(j) ==
    \/ j <= Len(masked_texts)
    \/ mask_pc = "raised" /\ j = Len(masked_texts) + 1

\* the words of text j after truncation
MaskWords(j) == Truncate(texts[j], max_words)

\* floor(L * r) for text j
FloorLR(j) == (Len(MaskWords(j)) * mask_ratio.num) \div mask_ratio.den

\* the number of positions of text j that can start a 2-word span
MaskablePositions(j) ==
    IF Len(MaskWords(j)) >= 1 THEN Len(MaskWords(j)) - 1 ELSE 0

\* the number of occurrences of <extra_id_i> in a word list
PlaceholderCount(words, i) ==
    Cardinality({p \in 1..Len(words) : words[p] = ExtraId(i)})

NumPlaceholders(words) ==
    Cardinality({p \in 1..Len(words) : IsExtraId(words[p])})

\* C1: every text with L >= 2 words and floor(L*r) <= L-1 is masked, for
\* every choice of the sampler, into a text with exactly floor(L*r)
\* placeholders, the indices 0..floor(L*r)-1 each occurring exactly once.
C1_MaskingInvariant ==
    \A j \in 1..Len(masked_texts) :
        (Len(MaskWords(j)) >= 2 /\ FloorLR(j) <= Len(MaskWords(j)) - 1)
        => /\ NumPlaceholders(masked_texts[j]) = FloorLR(j)
           /\ \A i \in 0..(FloorLR(j) - 1) :
                PlaceholderCount(masked_texts[j], i) = 1

\* the 1-based positions a, b of mask_indices of text j that hold two
\* adjacent word indices, the larger one at a
AdjacentChosen(j) ==
    {ab \in (1..Len(sampled_indices[j])) \X (1..Len(sampled_indices[j])) :
        sampled_indices[j][ab[1]] = sampled_indices[j][ab[2]] + 1}

\* C22: when two chosen mask indices are adjacent (k and k+1), the
\* placeholder written at k+1 is deleted while k is masked: the masked text
\* lacks the placeholder index given to k+1 and holds fewer than num_masks
\* placeholders.
C22_AdjacentIndexDefect ==
    \A j \in 1..Len(masked_texts) :
       \A ab \in AdjacentChosen(j) :
          /\ PlaceholderCount(masked_texts[j], ab[1] - 1) = 0
          /\ NumPlaceholders(masked_texts[j]) < NumMasks(MaskWords(j), mask_ratio)

\* a text of five words masked at the indices 3, 1 and 0: the placeholder
\* of index 1 is gone, the two others are there
C22_Witness ==
    \E j \in 1..Len(masked_texts) :
       /\ sampled_indices[j] = <<3, 1, 0>>
       /\ AdjacentChosen(j) = {<<2, 3>>}
       /\ masked_texts[j] = <<ExtraId(2), ExtraId(0)>>

\* C25: placeholder index i goes to the i-th largest chosen word index:
\* the chosen indices are processed in strictly decreasing order, a
\* placeholder that is present stands at its word index less the number of
\* smaller chosen indices, and the placeholders present in a masked text
\* have strictly decreasing indices from left to right.
C25_PlaceholdersDecreasing ==
    \A j \in 1..Len(masked_texts) :
       LET chosen == sampled_indices[j]
           masked == masked_texts[j]
       IN /\ \A i \in 1..(Len(chosen) - 1) : chosen[i] > chosen[i + 1]
          /\ \A i \in 1..Len(chosen) :
                PlaceholderCount(masked, i - 1) >= 1
                => masked[chosen[i] - (Len(chosen) - i) + 1] = ExtraId(i - 1)
          /\ \A p, q \in 1..Len(masked) :
                (p < q /\ IsExtraId(masked[p]) /\ IsExtraId(masked[q]))
                => masked[p].v > masked[q].v

\* a text of five words masked at the indices 3 and 1: placeholder 1
\* stands left of placeholder 0
C25_Witness ==
    \E j \in 1..Len(masked_texts) :
       /\ sampled_indices[j] = <<3, 1>>
       /\ masked_texts[j] = <<Word(1), ExtraId(1), ExtraId(0)>>

\* the guard "idx+1 < len(words)" is true at step i and at every later
\* step of the masking loop
RECURSIVE GuardTrueFrom(_, _, _)
GuardTrueFrom(words, mask_indices, i) ==
    IF i > Len(mask_indices) THEN TRUE
    ELSE /\ mask_indices[i] + 1 < Len(words)
         /\ GuardTrueFrom(ApplyMask(words, <<mask_indices[i]>>, 1), mask_indices, i + 1)

\* C26: the guard 'idx+1 < len(words)' is true at every masking step, so
\* each mask removes exactly one word: a text of L words after truncation
\* masked at num_masks distinct indices of [0, L-2], adjacent or not, has
\* exactly L - num_masks tokens.
C26_EachMaskRemovesOneWord ==
    \A j \in 1..Len(masked_texts) :
       sampled_indices[j] # <<>>
       => /\ Len(sampled_indices[j]) = NumMasks(MaskWords(j), mask_ratio)
          /\ \A i \in 1..Len(sampled_indices[j]) :
                sampled_indices[j][i] \in 0..(Len(MaskWords(j)) - 2)
          /\ GuardTrueFrom(MaskWords(j), sampled_indices[j], 1)
          /\ Len(masked_texts[j]) = Len(MaskWords(j)) - Len(sampled_indices[j])

\* a text of five words masked at the adjacent indices 3, 2 and at 0: two
\* tokens are left
C26_Witness ==
    \E j \in 1..Len(masked_texts) :
       /\ Len(MaskWords(j)) = 5
       /\ sampled_indices[j] = <<3, 2, 0>>
       /\ Len(masked_texts[j]) = 2

\* C2: a text whose mask count floor(L*r) exceeds its L-1 maskable positions
\* makes the call fail with InvalidMaskRatio, raised by a validation that
\* runs before sampling: the sampler never receives an infeasible request,
\* and no masked text is produced for that text.
C2_InvalidMaskRatio ==
    \A j \in 1..Len(texts) :
        (MaskProcessed(j) /\ FloorLR(j) > MaskablePositions(j))
        => /\ mask_pc = "raised"
           /\ mask_error = "InvalidMaskRatio"
           /\ Len(masked_texts) < j
           /\ \A c \in 1..Len(sampler_calls) :
                sampler_calls[c].size <= sampler_calls[c].a

\* C3 as stated: a text with fewer than 2 words is returned unmasked, with
\* no error, for every mask ratio in (0, 1].
C3_ShortTextUnmasked ==
    \A j \in 1..Len(texts) :
        (MaskProcessed(j) /\ Len(MaskWords(j)) < 2)
        => /\ j <= Len(masked_texts)
           /\ masked_texts[j] = MaskWords(j)

\* C3 amended: a text with no word (any ratio in (0, 1]) or with one word
\* and a ratio below 1 gets mask count 0 and is returned unmasked, with no
\* error; a one-word text with ratio 1 gets mask count 1 and the call raises.
C3_ShortTextUnmaskedBelowOne ==
    \A j \in 1..Len(texts) :
        (MaskProcessed(j) /\ Len(MaskWords(j)) < 2)
        => IF Len(MaskWords(j)) = 0 \/ mask_ratio.num < mask_ratio.den
           THEN /\ j <= Len(masked_texts)
                /\ masked_texts[j] = MaskWords(j)
                /\ NumPlaceholders(masked_texts[j]) = 0
           ELSE /\ mask_pc = "raised"
                /\ Len(masked_texts) = j - 1

\* a batch that was returned and holds a one-word text, under a ratio < 1
C3_Witness ==
    /\ mask_pc = "returned"
    /\ mask_ratio.num < mask_ratio.den
    /\ \E j \in 1..Len(texts) :
         Len(MaskWords(j)) = 1 /\ masked_texts[j] = MaskWords(j)

-----------------------------------------------------------------------------
(* Claims about batch_average_log_prob *)

\* the position in all_log_probs of row r of the sub-batch scored last
LastBatchEntry(r) == Len(all_log_probs) - Len(input_ids) + r

\* the number of attended positions of row r after the one-position shift
ValidCount(r) == SumSeq(Shift(attention_mask[r]))

\* the sum of the losses of row r at the attended post-shift positions
CountedLoss(r) ==
    SumSeq([c \in 1..Len(loss_per_token[r]) |->
               IF attention_mask[r][c + 1] = 1 THEN loss_per_token[r][c] ELSE 0])

\* C4: a text whose valid-token count after the shift is 0 gets negative
\* infinity (not 0, not the quotient by the clamped count); every other
\* text of the sub-batch gets its own finite value, minus the mean of its
\* counted losses.
C4_DegenerateIsNegInf ==
    \A r \in 1..Len(input_ids) :
        LET value == all_log_probs[LastBatchEntry(r)]
        IN IF ValidCount(r) = 0
           THEN value = NegInf
           ELSE /\ value.k = "fin"
                /\ value.n * ValidCount(r) = -CountedLoss(r) * value.d

\* an empty text scored in one sub-batch with a text of non-zero score
C4_Witness ==
    /\ Len(input_ids) = 2
    /\ ValidCount(1) = 0
    /\ SumSeq(attention_mask[1]) = 0
    /\ all_log_probs[LastBatchEntry(1)] = NegInf
    /\ ValidCount(2) > 0
    /\ all_log_probs[LastBatchEntry(2)].k = "fin"
    /\ all_log_probs[LastBatchEntry(2)].n < 0

\* the number of non-padding tokens of row r
TokenCount(r) == SumSeq(attention_mask[r])

C5_IgnoredIffNotCounted ==
    \A r \in 1..Len(input_ids) :
        /\ \A c \in 1..Len(loss_per_token[r]) :
             (input_ids[r][c + 1] = pad_token_id) <=> (attention_mask[r][c + 1] = 0)
        /\ ValidCount(r) > 0 =>
             LET value == all_log_probs[LastBatchEntry(r)]
                 counted ==
                     SumSeq([c \in 1..Len(loss_per_token[r]) |->
                                IF attention_mask[r][c + 1] = 1
                                THEN CrossEntropy(input_ids[r][c], input_ids[r][c + 1])
                                ELSE 0])
             IN value.n * ValidCount(r) = -counted * value.d

\* the score of one text on its own: minus the mean, over the tokens after
\* the first, of the loss the scorer keeps for the token
RECURSIVE KeptLossFrom(_, _)
KeptLossFrom(toks, c) ==
    IF c > Len(toks) THEN 0
    ELSE (IF toks[c] = pad_token_id THEN 0 ELSE CrossEntropy(toks[c - 1], toks[c]))
         + KeptLossFrom(toks, c + 1)

TextScore(toks) ==
    IF Len(toks) <= 1 THEN NegInf
    ELSE Fin(-KeptLossFrom(toks, 2), Len(toks) - 1)

\* C6: for K >= 2 texts and a sub-batch size 1 <= B < K the returned list
\* has exactly K entries and entry j is the score of text j; while the call
\* runs, the list holds the scores of the first texts, in input order.
C6_BatchOrderPreserved ==
    (Len(score_texts) >= 2 /\ batch_size < Len(score_texts))
    => /\ Len(all_log_probs) <= Len(score_texts)
       /\ \A j \in 1..Len(all_log_probs) :
            all_log_probs[j] = TextScore(score_texts[j])
       /\ score_pc = "returned" => Len(all_log_probs) = Len(score_texts)

\* three texts of pairwise different scores returned from sub-batches of
\* two and one
C6_Witness ==
    /\ score_pc = "returned"
    /\ Len(score_texts) = 3
    /\ batch_size = 2
    /\ Len(all_log_probs) = 3
    /\ all_log_probs[1] # all_log_probs[2]
    /\ all_log_probs[2] # all_log_probs[3]
    /\ all_log_probs[1] # all_log_probs[3]

-----------------------------------------------------------------------------
(* Claims about compute_detectgpt_discrepancy *)

\* the perturbed values of text i
Perturbed(i) == log_probs_per_text_transformed[i]

AllFinite(xs) == \A c \in 1..Len(xs) : IsFin(xs[c])

\* the record holds integers only: the sum of the perturbed values of text
\* i, and P^2 times the sum of their squared deviations from the mean
IntSum(xs) == SumSeq([c \in 1..Len(xs) |-> xs[c].n])

ScaledSquares(xs) ==
    SumSeq([c \in 1..Len(xs) |->
               (Len(xs) * xs[c].n - IntSum(xs)) * (Len(xs) * xs[c].n - IntSum(xs))])

\* base - mean(xs) in float64 arithmetic, written out by cases
ExpectedDifference(base, xs) ==
    IF AllFinite(xs)
    THEN IF IsFin(base)
         THEN Score("fin", Fin(Len(xs) * base.n - IntSum(xs), Len(xs)).n,
                    Fin(Len(xs) * base.n - IntSum(xs), Len(xs)).d, 1, 1)
         ELSE Score("-inf", 0, 1, 1, 1)
    ELSE IF IsFin(base) THEN Score("+inf", 0, 1, 1, 1)
         ELSE Score("nan", 0, 1, 1, 1)

\* C7: without normalization the score of text i is base[i] minus the mean
\* of transformed[i]; base -2 with transformed [-3, -3, -3] gives 1.
C7_UnnormalizedDiscrepancy ==
    (disc_pc = "returned" /\ ~normalization)
    => /\ Len(discrepancy_scores) = Len(log_probs_per_text_base)
       /\ \A i \in 1..Len(discrepancy_scores) :
            /\ discrepancy_scores[i] =
                 ExpectedDifference(log_probs_per_text_base[i], Perturbed(i))
            /\ (/\ log_probs_per_text_base[i] = Fin(-2, 1)
                /\ Perturbed(i) = <<Fin(-3, 1), Fin(-3, 1), Fin(-3, 1)>>)
               => discrepancy_scores[i] = Score("fin", 1, 1, 1, 1)

\* base -2 and transformed [-3, -3, -3], scored without normalization
C7_Witness ==
    /\ disc_pc = "returned"
    /\ ~normalization
    /\ \E i \in 1..Len(discrepancy_scores) :
         /\ log_probs_per_text_base[i] = Fin(-2, 1)
         /\ Perturbed(i) = <<Fin(-3, 1), Fin(-3, 1), Fin(-3, 1)>>
         /\ discrepancy_scores[i].n = 1

C8_WitnessSpread ==
    /\ disc_pc = "returned"
    /\ normalization
    /\ \E i \in 1..Len(discrepancy_scores) :
         /\ log_probs_per_text_base[i] = Fin(-2, 1)
         /\ Perturbed(i) = <<Fin(-3, 1), Fin(-2, 1), Fin(-3, 1)>>
         /\ discrepancy_scores[i] = Score("fin", 2, 3, 1, 3)

\* C29: with normalization and exactly one perturbation per text the
\* sample variance (divisor P - 1 = 0) is undefined, the test "sigma > 0"
\* is false, and the call returns, with the score 0 for every text,
\* whatever the base and perturbed values are.
C29_SinglePerturbationScoresZero ==
    (disc_pc = "returned" /\ normalization)
    => /\ Len(discrepancy_scores) = Len(log_probs_per_text_base)
       /\ \A i \in 1..Len(log_probs_per_text_base) :
             Len(Perturbed(i)) = 1
             => /\ SigmaSquared(Perturbed(i)) = NaN
                /\ ~SigmaPositive(SigmaSquared(Perturbed(i)))
                /\ discrepancy_scores[i] = ScoreZero

\* a normalized call on a text with one perturbed value below its finite
\* base value: the difference is not 0, the score is
C29_Witness ==
    /\ disc_pc = "returned"
    /\ normalization
    /\ Len(Perturbed(1)) = 1
    /\ log_probs_per_text_base[1] = Fin(-2, 1)
    /\ Perturbed(1)[1] = Fin(-3, 1)
    /\ discrepancy_scores[1] = ScoreZero

\* C30: compute_detectgpt_discrepancy is a function of its arguments: no
\* call changes the base list or the per-text lists, and a call returns
\* the scores of the latest earlier call with the same normalization flag,
\* whatever calls, with either flag, were made in between.
C30_AggregatorPure ==
    /\ []((disc_pc = "returned" /\ derived[normalization].done)
          => discrepancy_scores = derived[normalization].scores)
    /\ [][/\ log_probs_per_text_base' = log_probs_per_text_base
          /\ log_probs_per_text_transformed' = log_probs_per_text_transformed]_vars

\* an unnormalized call made after a normalized call that came after an
\* earlier unnormalized call, on a record for which the two flags give
\* different scores
C30_Witness ==
    /\ disc_pc = "returned"
    /\ ~normalization
    /\ derived[FALSE].done
    /\ derived[TRUE].done
    /\ derived[TRUE].scores # derived[FALSE].scores
    /\ discrepancy_scores = derived[FALSE].scores

\* C9: a negative-infinity base or perturbed value of a text is preserved:
\* the score of that text, with or without normalization, is infinite or
\* NaN, never 0 and never an ordinary finite number.
C9_NegInfPreserved ==
    disc_pc = "returned"
    => \A i \in 1..Len(discrepancy_scores) :
         (\/ log_probs_per_text_base[i] = NegInf
          \/ \E c \in 1..Len(Perturbed(i)) : Perturbed(i)[c] = NegInf)
         => discrepancy_scores[i].k \in {"-inf", "+inf", "nan"}

-----------------------------------------------------------------------------
(* Claims about batch_extract_fills *)

\* the raw text as the pattern sees it
CleanText == Strip(RemoveLiterals(raw_text))

MarkerPositions == {q \in 1..Len(CleanText) : IsExtraId(CleanText[q])}

\* the stripped text that follows the marker at position q, up to the next
\* marker or the end
TextAfter(q) == Strip(SubSeq(CleanText, q + 1, NextMarker(CleanText, q + 1) - 1))

\* the text holds N markers, of indices 0..N-1 each once, in any order,
\* each followed by non-empty text
WellFormedRaw ==
    /\ \A i \in 0..(Cardinality(MarkerPositions) - 1) :
         Cardinality({q \in MarkerPositions : CleanText[q].v = i}) = 1
    /\ \A q \in MarkerPositions : TextAfter(q) # <<>>

\* C10: for a raw string of N markers with the distinct indices 0..N-1, in
\* any order, each followed by non-empty text, the result has exactly N
\* fills and fill number i is the text that followed the marker of index i.
C10_FillsInMarkerIndexOrder ==
    (extract_pc = "returned" /\ WellFormedRaw)
    => /\ Len(extracted_fills) = Cardinality(MarkerPositions)
       /\ \A q \in MarkerPositions :
            extracted_fills[CleanText[q].v + 1] = TextAfter(q)

\* the position of the marker that follows the marker at q, or the position
\* past the end when q holds the last marker
FollowingMarker(q) ==
    LET later == {p \in MarkerPositions : p > q}
    IN IF later = {} THEN Len(CleanText) + 1
       ELSE CHOOSE p \in later : \A r \in later : p <= r

\* the text between the marker at q and the following marker (or the end),
\* without the blanks at its two ends
TrimmedBetween(q) ==
    LET inner == {p \in (q + 1)..(FollowingMarker(q) - 1) : ~IsSpace(CleanText[p])}
    IN IF inner = {} THEN <<>>
       ELSE SubSeq(CleanText,
                   CHOOSE a \in inner : \A r \in inner : a <= r,
                   CHOOSE b \in inner : \A r \in inner : r <= b)

\* the number of markers at or before position q
MarkerRank(q) == Cardinality({p \in MarkerPositions : p <= q})

\* C11: the result holds one fill per marker of the cleaned string, in order
\* of appearance; each fill is the whitespace-trimmed text between its marker
\* and the next marker (or the end), so no fill spans past the next marker
\* and no fill contains a marker.
C11_FillBetweenMarkers ==
    extract_pc = "returned"
    => /\ Len(extracted_fills) = Cardinality(MarkerPositions)
       /\ \A q \in MarkerPositions :
            extracted_fills[MarkerRank(q)] = TrimmedBetween(q)
       /\ \A k \in 1..Len(extracted_fills) :
            \A p \in 1..Len(extracted_fills[k]) :
               ~IsExtraId(extracted_fills[k][p])

\* a returned extraction of a string with two markers, the first followed
\* by a blank and a word: two fills, the first non-empty
C11_Witness ==
    /\ extract_pc = "returned"
    /\ Cardinality(MarkerPositions) = 2
    /\ Len(extracted_fills) = 2
    /\ extracted_fills[1] # <<>>
    /\ \E q \in MarkerPositions :
         q < Len(CleanText) /\ IsSpace(CleanText[q + 1])

-----------------------------------------------------------------------------
(* Claims about batch_apply_extracted_fills *)

\* the number of occurrences of tok in text
Occurrences(text, tok) == Cardinality({p \in 1..Len(text) : text[p] = tok})

\* C12: for a pair whose fill set is empty the call returns, and the output
\* is the masked text unchanged, every placeholder still in it.
C12_EmptyFillSetUnchanged ==
    (apply_pc = "returned" /\ fills = <<>>)
    => /\ perturbed_text = masked_text
       /\ \A i \in 0..MaxMaskedLen :
            Occurrences(perturbed_text, ExtraId(i)) = Occurrences(masked_text, ExtraId(i))

\* a returned pair with an empty fill set and a masked text that holds a
\* placeholder
C12_Witness ==
    /\ apply_pc = "returned"
    /\ fills = <<>>
    /\ \E p \in 1..Len(masked_text) : IsExtraId(masked_text[p])

\* no fill of the set holds a placeholder marker (the fills the extractor
\* produces are of this kind)
FillsMarkerFree ==
    \A k \in 1..Len(fills) : \A p \in 1..Len(fills[k]) : ~IsExtraId(fills[k][p])

\* position p of the masked text holds the first occurrence of a
\* placeholder whose index is below the number of fills
IsFilledPosition(p) ==
    /\ IsExtraId(masked_text[p])
    /\ masked_text[p].v < Len(fills)
    /\ \A r \in 1..(p - 1) : masked_text[r] # masked_text[p]

\* the masked text from position p on, each filled position replaced by
\* its fill and every other position kept
RECURSIVE FilledFrom(_)
FilledFrom(p) ==
    IF p > Len(masked_text) THEN <<>>
    ELSE (IF IsFilledPosition(p) THEN fills[masked_text[p].v + 1]
          ELSE <<masked_text[p]>>) \o FilledFrom(p + 1)

\* C13: for a non-empty fill set of length F the output is the masked text
\* with the first occurrence of placeholder i replaced by fill i for each
\* i < F, nothing else changed: a fill whose placeholder is absent changes
\* nothing and every placeholder of index >= F is still in the output.
\* (The equality is stated for fills that hold no placeholder marker.)
C13_FillsReplaceFirstOccurrence ==
    (apply_pc = "returned" /\ fills # <<>>)
    => /\ FillsMarkerFree => perturbed_text = FilledFrom(1)
       /\ \A j \in Len(fills)..MaxMaskedLen :
            Occurrences(perturbed_text, ExtraId(j)) >= Occurrences(masked_text, ExtraId(j))

\* a returned pair with two marker-free fills, the second not empty, and a
\* masked text that holds placeholder 0 twice, no placeholder 1 and
\* placeholder 2
C13_Witness ==
    /\ apply_pc = "returned"
    /\ Len(fills) = 2
    /\ FillsMarkerFree
    /\ fills[2] # <<>>
    /\ Occurrences(masked_text, ExtraId(0)) = 2
    /\ Occurrences(masked_text, ExtraId(1)) = 0
    /\ Occurrences(masked_text, ExtraId(2)) = 1
    /\ perturbed_text # masked_text

-----------------------------------------------------------------------------
(* Claims about the round trip of masking and perfect infill *)

\* the index of the text whose masked form the applier holds, with the
\* fills of its perfect infill
RoundTripText ==
    {j \in 1..Len(masked_texts) :
        masked_text = masked_texts[j] /\ fills = PerfectFills(j)}

\* C14: for a text of L >= 2 words (after truncation) masked without error
\* and filled with the words the masker overwrote, the applier's output has
\* exactly L - floor(L*r) words, whatever indices were sampled.
C14_RoundTripWordCount ==
    (mask_pc = "returned" /\ apply_pc = "returned")
    => \A j \in RoundTripText :
         Len(MaskWords(j)) >= 2
         => /\ Len(perturbed_text) = Len(MaskWords(j)) - FloorLR(j)
            /\ \A p \in 1..Len(perturbed_text) : ~IsExtraId(perturbed_text[p])

\* a round trip of a text of 5 words with 2 masks on adjacent indices
C14_Witness ==
    /\ mask_pc = "returned"
    /\ apply_pc = "returned"
    /\ \E j \in RoundTripText :
         /\ Len(MaskWords(j)) = 5
         /\ Len(sampled_indices[j]) = 2
         /\ sampled_indices[j][1] = sampled_indices[j][2] + 1
         /\ Len(perturbed_text) = 3

-----------------------------------------------------------------------------
(* Claims about batch_replace_masks *)

\* the number of the chunk that holds text j when the chunks have size bs
ChunkOf(j, bs) == ((j - 1) \div bs) + 1

\* the positions of the texts of chunk c when the chunks have size bs
ChunkMembers(c, bs) ==
    {j \in 1..Len(infill_texts) : ChunkOf(j, bs) = c}

\* C15: a chunk that has been generated and in which no text holds a
\* placeholder was generated with the end-of-sequence token as stop token,
\* not with a placeholder marker.
C15_StopOnEosWithoutPlaceholders ==
    \A c \in 1..Len(stop_ids) :
       (\A j \in ChunkMembers(c, infill_batch_size) :
           CountExtraId(infill_texts[j]) = 0)
       => stop_ids[c] = EosToken

\* the largest placeholder count among the texts that share the chunk of
\* text j when the chunks have size bs
ChunkMaxCount(j, bs) ==
    Max({CountExtraId(infill_texts[k]) :
           k \in ChunkMembers(ChunkOf(j, bs), bs)})

\* C17: the sub-batch size does not affect results: the stop marker a
\* masked text was generated with is the one it gets under every other
\* sub-batch size, and the value the scorer returns for a text is the value
\* of that text alone, whatever the sub-batch size.
C17_BatchSizeIndependent ==
    /\ infill_pc = "returned"
       => \A j \in 1..Len(infill_texts) : \A bs \in 1..MaxInfillTexts :
             stop_ids[ChunkOf(j, infill_batch_size)] = ExtraId(ChunkMaxCount(j, bs))
    /\ score_pc = "returned"
       => \A j \in 1..Len(score_texts) : all_log_probs[j] = TextScore(score_texts[j])

-----------------------------------------------------------------------------
(* Claims about t5_perturbation and optimized_processing *)

\* a word proposed by the infill model
IsFillWord(l) == l.t = "w" /\ l.v >= 10

\* p is a perturbation of the original text o: o itself when o is too short
\* to be masked, otherwise o with two neighbouring words replaced by one
\* word of the infill model
PerturbationOf(p, o) ==
    IF NumMasks(o, default_mask_ratio) = 0 THEN p = o
    ELSE \E idx \in 1..(Len(o) - 1) :
            /\ Len(p) = Len(o) - 1
            /\ SubSeq(p, 1, idx - 1) = SubSeq(o, 1, idx - 1)
            /\ IsFillWord(p[idx])
            /\ SubSeq(p, idx + 1, Len(p)) = SubSeq(o, idx + 2, Len(o))

\* C16: t5_perturbation yields one perturbed text per input text, output j
\* being derived from input j: the decoded outputs of the chunks generated
\* so far stand in input order, and the list the applier produces has the
\* length of the input and holds at position j a perturbation of text j.
C16_PerturbationOrderAndCount ==
    /\ infill_pc \in {"run", "returned"}
       => /\ Len(all_outputs) <= Len(infill_texts)
          /\ \A j \in 1..Len(all_outputs) :
               all_outputs[j] =
                  Generate(infill_texts[j],
                           ExtraId(ChunkMaxCount(j, infill_batch_size)))
    /\ op_pc = "apply"
       => /\ Len(all_perturbed_texts) = Len(original_texts)
          /\ \A j \in 1..Len(original_texts) :
               PerturbationOf(all_perturbed_texts[j], original_texts[j])

\* t5_perturbation has applied the fills of two texts of different lengths
\* that went through the infill model in two chunks; the second text got
\* perturbed
C16_Witness ==
    /\ op_pc = "apply"
    /\ op_batch_size = 1
    /\ Len(original_texts) = 2
    /\ Len(original_texts[1]) # Len(original_texts[2])
    /\ Len(all_perturbed_texts) = 2
    /\ all_perturbed_texts[2] # original_texts[2]

\* C18: a failure of the tokenizer or model in a sub-batch of the scorer or
\* of the infill requester propagates: from then on the failed call runs no
\* further sub-batch, optimized_processing is left by the exception and
\* stays so, no score is recorded for the failed call, no round is started
\* and nothing is aggregated.
C18_FailurePropagates ==
    [][(score_pc = "raised" \/ infill_pc = "raised")
       => /\ op_pc' = "raised"
          /\ UNCHANGED <<score_vars, infill_vars, disc_vars, mask_vars>>
          /\ UNCHANGED <<perturbation_idx, events, all_perturbed_texts>>]_vars

\* the scorer failed in the second sub-batch of a perturbation round that
\* was not the last one, and the failure has left optimized_processing
C18_Witness ==
    /\ op_pc = "raised"
    /\ score_pc = "raised"
    /\ Len(all_log_probs) >= 1
    /\ Len(all_log_probs) < Len(score_texts)
    /\ Len(events) > 1
    /\ perturbation_idx + 1 < n_perturbations

\* one perturbation round, as the calls it makes
RoundEvents == <<"mask", "infill", "extract", "apply", "score">>

RECURSIVE RoundsEvents(_)
RoundsEvents(k) == IF k = 0 THEN <<>> ELSE RoundsEvents(k - 1) \o RoundEvents

\* the calls of a complete run with P rounds
RunEvents(P) == <<"score">> \o RoundsEvents(P) \o <<"aggregate">>

IsPrefix(a, b) == Len(a) <= Len(b) /\ a = SubSeq(b, 1, Len(a))

\* C20: the calls of a run are, in this order, one scoring of the originals,
\* then per round masking, infill request, extraction, application and one
\* scoring, then the aggregator; a round starts only when no scoring is in
\* progress; the aggregator runs only after the last round, and by then
\* the scorer has been called P + 1 times.
C20_PipelineOrder ==
    /\ IsPrefix(events, RunEvents(n_perturbations))
    /\ op_pc \in {"mask", "infill", "extract", "apply"} => score_pc = "idle"
    /\ disc_pc \in {"ready", "returned"}
       => /\ perturbation_idx = n_perturbations
          /\ events = RunEvents(n_perturbations)
          /\ Cardinality({k \in 1..Len(events) : events[k] = "score"})
                = n_perturbations + 1

\* a run of two rounds on at least one text has been aggregated
C20_Witness ==
    /\ disc_pc = "returned"
    /\ n_perturbations = 2
    /\ Len(original_texts) >= 1
    /\ Len(events) = 12

-----------------------------------------------------------------------------
(* Claims about the results of optimized_processing *)

\* the rounds that have completed
RoundsCompleted == perturbation_idx

\* C21: for N >= 1 texts and P >= 1 rounds, after round k has completed the
\* result holds exactly N per-text lists, each of length k; the step that
\* completes round k keeps the entries of the earlier rounds and appends to
\* list j the score of the round-k perturbation of text j; on return the
\* base list has length N and every per-text list has length P.
C21_AccumulationInvariant ==
    /\ [](RoundsCompleted >= 1
          => /\ Len(log_probs_per_text_transformed) = Len(original_texts)
             /\ \A j \in 1..Len(original_texts) :
                  Len(log_probs_per_text_transformed[j]) = RoundsCompleted)
    /\ []((op_pc = "returned" /\ Len(original_texts) >= 1 /\ n_perturbations >= 1)
          => /\ Len(log_probs_per_text_base) = Len(original_texts)
             /\ \A j \in 1..Len(original_texts) :
                  Len(log_probs_per_text_transformed[j]) = n_perturbations)
    /\ [][(op_pc = "score_round" /\ op_pc' = "loop")
          => /\ RoundsCompleted' = RoundsCompleted + 1
             /\ Len(all_perturbed_texts) = Len(original_texts)
             /\ \A j \in 1..Len(original_texts) :
                  LET list == log_probs_per_text_transformed'[j]
                  IN /\ list[RoundsCompleted'] = TextScore(Tokens(all_perturbed_texts[j]))
                     /\ RoundsCompleted >= 1
                        => SubSeq(list, 1, RoundsCompleted)
                              = log_probs_per_text_transformed[j]]_vars

\* a run of two rounds on two texts has returned; the two rounds gave a
\* text different scores
C21_Witness ==
    /\ op_pc = "returned"
    /\ n_perturbations = 2
    /\ Len(original_texts) = 2
    /\ Len(log_probs_per_text_transformed) = 2
    /\ \E j \in 1..2 :
         /\ Len(log_probs_per_text_transformed[j]) = 2
         /\ log_probs_per_text_transformed[j][1] # log_probs_per_text_transformed[j][2]

\* C23: no stage changes its inputs: while the masker runs its texts stay
\* as they are, while the infill requester runs its texts stay as they are,
\* the extraction leaves the raw outputs and the application leaves the
\* masked texts and the fills as they are; original_texts never changes,
\* and every round hands the original texts to the masker.
C23_InputsUnchanged ==
    [][/\ original_texts' = original_texts
       /\ mask_pc = "run" => texts' = texts
       /\ infill_pc = "run" => infill_texts' = infill_texts
       /\ (op_pc = "infill" /\ op_pc' = "extract") => all_raw_fills' = all_outputs
       /\ (op_pc = "extract" /\ op_pc' = "apply")
          => /\ all_masked_texts' = all_masked_texts
             /\ all_extracted_fills' = all_extracted_fills
       /\ (op_pc = "loop" /\ op_pc' = "mask") => texts' = original_texts]_vars

\* the second round has handed the original texts to the masker, after a
\* first round whose perturbed text scored differently from its original
C23_Witness ==
    /\ op_pc = "mask"
    /\ perturbation_idx = 1
    /\ Len(original_texts) >= 1
    /\ texts = original_texts
    /\ Len(log_probs_per_text_transformed) = Len(original_texts)
    /\ \E j \in 1..Len(original_texts) :
         log_probs_per_text_transformed[j][1] # log_probs_per_text_base[j]

-----------------------------------------------------------------------------
(* Claims about batch_replace_masks on the texts batch_mask_text returns *)

\* the chunks batch_replace_masks makes of the returned masked texts under
\* the sub-batch size bs
ChunksOfMasked(bs) ==
    {BatchTexts(masked_texts, i, bs) :
        i \in {c \in 0..(Len(masked_texts) - 1) : c % bs = 0}}

\* C27: the stop marker of a chunk is a placeholder marker whose index is
\* strictly greater than the index of every placeholder present in a text
\* of the chunk, for the masked texts batch_mask_text returns and every
\* sub-batch size.
C27_StopBeyondPlaceholders ==
    mask_pc = "returned"
    => \A bs \in 1..MaxTexts :
          \A chunk \in ChunksOfMasked(bs) :
             /\ IsExtraId(StopId(chunk))
             /\ \A k \in 1..Len(chunk) :
                   \A p \in 1..Len(chunk[k]) :
                      IsExtraId(chunk[k][p]) => StopId(chunk).v > chunk[k][p].v

-----------------------------------------------------------------------------
(* Claims about two runs of the pipeline *)

====
